---------------------------- MODULE Spec2Model ----------------------------
(***************************************************************************)
(* Model of the chat client AuraBookChatMVP (src/unnamed/part_000, with    *)
(* the earlier layout of the same component in src/src/App.tsx).           *)
(*                                                                         *)
(* Text is modelled as it is in the program: a JavaScript string is a      *)
(* sequence of code points (numbers), a response body is a sequence of     *)
(* bytes (numbers 0..255).  "data:" is <<100, 97, 116, 97, 58>>, "\n" is   *)
(* 10, U+00A0 (no-break space) is the two bytes 194 160 on the wire.       *)
(* An optional value (null / undefined in the source) is a sequence of     *)
(* length 0 or 1: None is <<>>, Some(v) is <<v>>.                          *)
(***************************************************************************)
EXTENDS Integers, Sequences, FiniteSets, TLC

None == <<>>

Some(v) == <<v>>

\* ------------------------------------------------------------------------
\* Strings: String.prototype.trim / startsWith / split / join / indexOf
\* ------------------------------------------------------------------------

\* White space as matched by \s in a regular expression and removed by trim()
IsSpace(c) ==
  \/ c \in {9, 10, 11, 12, 13, 32, 160, 5760, 8232, 8233, 8239, 8287, 12288, 65279}
  \/ (c >= 8192 /\ c <= 8202)

RECURSIVE TrimStart(_)
TrimStart(s) ==
  IF s = <<>> THEN <<>>
  ELSE IF IsSpace(Head(s)) THEN TrimStart(Tail(s)) ELSE s

RECURSIVE TrimEnd(_)
TrimEnd(s) ==
  IF s = <<>> THEN <<>>
  ELSE IF IsSpace(s[Len(s)]) THEN TrimEnd(SubSeq(s, 1, Len(s) - 1)) ELSE s

\* s.trim()
Trim_Identity(s) == s

Trim(s) == TrimEnd(TrimStart(s))

\* line.startsWith(p)
StartsWith(s, p) == Len(s) >= Len(p) /\ SubSeq(s, 1, Len(p)) = p

\* s.slice(n) for 0 <= n
SliceFrom(s, n) == IF n >= Len(s) THEN <<>> ELSE SubSeq(s, n + 1, Len(s))

\* line.replace(/^p\s?/, '') for a line that starts with p: the prefix and at
\* most ONE following white-space character are removed
StripPrefix_TrimAll(line, p) == Trim(SliceFrom(line, Len(p)))

StripPrefix(line, p) ==
  LET rest == SliceFrom(line, Len(p))
  IN  IF rest # <<>> /\ IsSpace(Head(rest)) THEN Tail(rest) ELSE rest

\* buffer.indexOf('\n\n'), 1-based; 0 stands for -1
RECURSIVE IndexOfBlank(_, _)
IndexOfBlank(s, i) ==
  IF i >= Len(s) THEN 0
  ELSE IF s[i] = 10 /\ s[i + 1] = 10 THEN i
  ELSE IndexOfBlank(s, i + 1)

\* chunk.split('\n')
RECURSIVE SplitLines(_, _)
SplitLines(s, cur) ==
  IF s = <<>> THEN <<cur>>
  ELSE IF Head(s) = 10 THEN <<cur>> \o SplitLines(Tail(s), <<>>)
  ELSE SplitLines(Tail(s), Append(cur, Head(s)))

\* dataLines.join('\n')
RECURSIVE JoinLines(_)
JoinLines(ls) ==
  IF ls = <<>> THEN <<>>
  ELSE IF Len(ls) = 1 THEN ls[1]
  ELSE ls[1] \o <<10>> \o JoinLines(Tail(ls))

\* the elements of a sequence of strings, concatenated
RECURSIVE Concat(_)
Concat(ss) == IF ss = <<>> THEN <<>> ELSE Head(ss) \o Concat(Tail(ss))

\* ------------------------------------------------------------------------
\* TextDecoder('utf-8').decode(value, { stream })
\* ------------------------------------------------------------------------

\* new TextDecoder(): no byte pending, no code point delivered yet
NewDecoder ==
  [cp |-> 0, seen |-> 0, needed |-> 0, lower |-> 128, upper |-> 191, bomSeen |-> FALSE]

ResetSequence(d) == [d EXCEPT !.cp = 0, !.seen = 0, !.needed = 0, !.lower = 128, !.upper = 191]

\* One code point leaves the decoder: a leading U+FEFF is dropped
Emit(d, out, c) ==
  [dec |-> [d EXCEPT !.bomSeen = TRUE],
   out |-> IF ~d.bomSeen /\ c = 65279 THEN out ELSE Append(out, c)]

\* The decoder's handler for one byte b.  again = TRUE: b ended a malformed
\* sequence and is to be handled once more as the start of a new one.
DecodeByte(d, out, b) ==
  IF d.needed = 0 THEN
    IF b <= 127 THEN Emit(d, out, b) @@ [again |-> FALSE]
    ELSE IF b >= 194 /\ b <= 223 THEN
      [dec |-> [d EXCEPT !.needed = 1, !.cp = b % 32], out |-> out, again |-> FALSE]
    ELSE IF b >= 224 /\ b <= 239 THEN
      [dec |-> [d EXCEPT !.needed = 2, !.cp = b % 16,
                         !.lower = IF b = 224 THEN 160 ELSE 128,
                         !.upper = IF b = 237 THEN 159 ELSE 191],
       out |-> out, again |-> FALSE]
    ELSE IF b >= 240 /\ b <= 244 THEN
      [dec |-> [d EXCEPT !.needed = 3, !.cp = b % 8,
                         !.lower = IF b = 240 THEN 144 ELSE 128,
                         !.upper = IF b = 244 THEN 143 ELSE 191],
       out |-> out, again |-> FALSE]
    ELSE Emit(d, out, 65533) @@ [again |-> FALSE]
  ELSE IF b < d.lower \/ b > d.upper THEN
    Emit(ResetSequence(d), out, 65533) @@ [again |-> TRUE]
  ELSE
    LET c == d.cp * 64 + (b % 64)
    IN  IF d.seen + 1 = d.needed
        THEN Emit(ResetSequence(d), out, c) @@ [again |-> FALSE]
        ELSE [dec |-> [d EXCEPT !.cp = c, !.seen = d.seen + 1, !.lower = 128, !.upper = 191],
              out |-> out, again |-> FALSE]

RECURSIVE DecodeRun(_, _, _, _)
DecodeRun(d, out, bytes, i) ==
  IF i > Len(bytes) THEN [dec |-> d, out |-> out]
  ELSE LET r == DecodeByte(d, out, bytes[i])
       IN  DecodeRun(r.dec, r.out, bytes, IF r.again THEN i ELSE i + 1)

\* decoder.decode(value, { stream: FALSE }) : an unfinished sequence at the
\* end becomes U+FFFD and the decoder starts afresh
DecodeFlush(d, bytes) ==
  LET r == DecodeRun(d, <<>>, bytes, 1)
  IN  IF r.dec.needed # 0
      THEN [dec |-> NewDecoder, out |-> Emit(r.dec, r.out, 65533).out]
      ELSE [dec |-> NewDecoder, out |-> r.out]

\* decoder.decode(value, { stream: stream })
Decode(d, bytes, stream) ==
  IF stream THEN DecodeRun(d, <<>>, bytes, 1) ELSE DecodeFlush(d, bytes)

\* ------------------------------------------------------------------------
\* handleSend: the frame parser inside the read loop
\* ------------------------------------------------------------------------

DataPrefix == <<100, 97, 116, 97, 58>>          \* "data:"

EventPrefix == <<101, 118, 101, 110, 116, 58>>  \* "event:"

ChunkEvent == <<99, 104, 117, 110, 107>>        \* "chunk"

\* for (const line of lines) { ... } : eventType (None for null) and dataLines
RECURSIVE ParseLines_FirstEvent(_, _, _)
ParseLines_FirstEvent(lines, eventType, dataLines) ==
  IF lines = <<>> THEN [eventType |-> eventType, dataLines |-> dataLines]
  ELSE LET line == Head(lines)
       IN  IF StartsWith(line, EventPrefix)
           THEN ParseLines_FirstEvent(Tail(lines),
                  IF eventType = None THEN Some(Trim(StripPrefix(line, EventPrefix)))
                  ELSE eventType, dataLines)
           ELSE IF StartsWith(line, DataPrefix)
           THEN ParseLines_FirstEvent(Tail(lines), eventType,
                                      Append(dataLines, StripPrefix(line, DataPrefix)))
           ELSE ParseLines_FirstEvent(Tail(lines), eventType, dataLines)

RECURSIVE ParseLines(_, _, _)
ParseLines(lines, eventType, dataLines) ==
  IF lines = <<>> THEN [eventType |-> eventType, dataLines |-> dataLines]
  ELSE LET line == Head(lines)
       IN  IF StartsWith(line, EventPrefix)
           THEN ParseLines(Tail(lines), Some(Trim(StripPrefix(line, EventPrefix))), dataLines)
           ELSE IF StartsWith(line, DataPrefix)
           THEN ParseLines(Tail(lines), eventType, Append(dataLines, StripPrefix(line, DataPrefix)))
           ELSE ParseLines(Tail(lines), eventType, dataLines)

ParseFrame(chunk) == ParseLines(SplitLines(chunk, <<>>), None, <<>>)

\* if (dataLines.length && (eventType === null || eventType === 'chunk'))
Forwarded_AnyEvent(f) == f.dataLines # <<>>

Forwarded(f) ==
  f.dataLines # <<>> /\ (f.eventType = None \/ f.eventType = Some(ChunkEvent))

\* The deltas one frame hands to setMessages: none or one
FrameDeltas(chunk) ==
  LET f == ParseFrame(chunk)
  IN  IF Forwarded(f) THEN <<JoinLines(f.dataLines)>> ELSE <<>>

\* while ((idx = buffer.indexOf('\n\n')) !== -1) { ... } : the deltas of the
\* complete frames of buffer, in order, and what stays in buffer
RECURSIVE Drain(_, _)
Drain(buffer, deltas) ==
  LET idx == IndexOfBlank(buffer, 1)
  IN  IF idx = 0 THEN [buffer |-> buffer, deltas |-> deltas]
      ELSE Drain(SliceFrom(buffer, idx + 1),
                 deltas \o FrameDeltas(SubSeq(buffer, 1, idx - 1)))

\* ------------------------------------------------------------------------
\* Numbers and dates as the program writes and reads them
\* ------------------------------------------------------------------------

\* Decimal digits of n >= 0, at least width of them
RECURSIVE Digits(_, _)
Digits(n, width) ==
  IF n < 10 /\ width <= 1 THEN <<48 + n>>
  ELSE Append(Digits(n \div 10, width - 1), 48 + (n % 10))

\* String(count)
NumberToString(n) == IF n < 0 THEN <<45>> \o Digits(0 - n, 1) ELSE Digits(n, 1)

\* The value of the character c as a digit in the given radix, -1 if none
DigitValue(c, radix) ==
  LET v == IF c >= 48 /\ c <= 57 THEN c - 48
           ELSE IF c >= 97 /\ c <= 122 THEN c - 87
           ELSE IF c >= 65 /\ c <= 90 THEN c - 55
           ELSE 0 - 1
  IN  IF v < radix THEN v ELSE 0 - 1

RECURSIVE ParseDigits(_, _, _, _)
ParseDigits(s, radix, acc, any) ==
  IF s = <<>> \/ DigitValue(Head(s), radix) < 0
  THEN IF any THEN Some(acc) ELSE None
  ELSE ParseDigits(Tail(s), radix, acc * radix + DigitValue(Head(s), radix), TRUE)

\* parseInt(s): leading white space and a sign are skipped, 0x selects
\* radix 16, the longest run of digits counts; None stands for NaN
ParseInt(s) ==
  LET t     == TrimStart(s)
      neg   == t # <<>> /\ Head(t) = 45
      u     == IF t # <<>> /\ Head(t) \in {43, 45} THEN Tail(t) ELSE t
      hex   == Len(u) >= 2 /\ u[1] = 48 /\ u[2] \in {120, 88}
      r     == IF hex THEN ParseDigits(SliceFrom(u, 2), 16, 0, FALSE)
                      ELSE ParseDigits(u, 10, 0, FALSE)
  IN  IF r = None THEN None ELSE IF neg THEN Some(0 - r[1]) ELSE r

\* x || 0 for a number x: NaN and 0 give 0
OrZero(r) == IF r = None THEN 0 ELSE r[1]

\* v || '0' for a stored value v: null and '' give '0'
OrZeroString(v) == IF v = None \/ v = Some(<<>>) THEN <<48>> ELSE v[1]

\* The clock counts ticks; OneDay ticks are the 86400000 ms of line 178
OneDay == 2

\* new Date(t).toISOString().slice(0, 10) for a clock reading t: the UTC
\* calendar date "YYYY-MM-DD" of day t \div OneDay since 1970-01-01
ToISODate(t) ==
  LET z   == (t \div OneDay) + 719468
      era == z \div 146097
      doe == z - era * 146097
      yoe == (doe - (doe \div 1460) + (doe \div 36524) - (doe \div 146096)) \div 365
      doy == doe - (365 * yoe + (yoe \div 4) - (yoe \div 100))
      mp  == (5 * doy + 2) \div 153
      d   == doy - ((153 * mp + 2) \div 5) + 1
      m   == IF mp < 10 THEN mp + 3 ELSE mp - 9
      y   == yoe + era * 400 + (IF m <= 2 THEN 1 ELSE 0)
  IN  Digits(y, 4) \o <<45>> \o Digits(m, 2) \o <<45>> \o Digits(d, 2)

\* ------------------------------------------------------------------------
\* State
\* ------------------------------------------------------------------------

VARIABLES
  messages,       \* useState<ChatMsg[]>: the transcript, [id, role, content]
  query,          \* useState: the draft in the composer
  books,          \* useState<Book[]>: the catalog as loaded
  selected,       \* useState<Book | null>
  streak,         \* useState<number>: the streak shown
  resumeSession,  \* useState: the resume banner's session or null
  mounted,        \* whether the on-load effects have run
  storage,        \* localStorage: key -> None (absent) or Some(value); the
                  \* value of journal is the list its JSON text stands for
  now,            \* the last reading of the system clock, in ticks
  nextId,         \* the next value crypto.randomUUID() returns
  turns,          \* one record per call of handleSend that reached fetch
  lastSend,       \* history: what the latest handleSend read and was given
  sentDays,       \* history: the UTC days on which a question was sent
  catalog,        \* the request GET /books: "idle", "pending", "loaded", "failed"
  crashed,        \* a render threw: React has removed the whole tree
  uncaught,       \* calls of handleSend that ended with an exception
  dailyPrompts    \* useState<string[]>: the prompt chips of the day

vars ==
  <<messages, query, books, selected, streak, resumeSession, mounted,
    storage, now, nextId, turns, lastSend, sentDays, catalog, crashed, uncaught,
    dailyPrompts>>

\* 'Sorry, something went wrong while fetching the answer.'
Fallback ==
  <<83, 111, 114, 114, 121, 44, 32, 115, 111, 109, 101, 116, 104, 105, 110,
    103, 32, 119, 101, 110, 116, 32, 119, 114, 111, 110, 103, 32, 119, 104,
    105, 108, 101, 32, 102, 101, 116, 99, 104, 105, 110, 103, 32, 116, 104,
    101, 32, 97, 110, 115, 119, 101, 114, 46>>

\* const userMsg / initBookMsg / errorMsg: ChatMsg (ts is never read)
ChatMsg(id, role, content) == [id |-> id, role |-> role, content |-> content]

\* An empty localStorage
EmptyStorage ==
  [lastActiveDate |-> None, streakCount |-> None, lastSession |-> None,
   journal |-> None]

\* The component as constructed (the useState initial values), with the
\* browser's storage as earlier sessions left it and the clock at t0
InitWith(stores, t0) ==
  /\ messages = <<>>
  /\ query = <<>>
  /\ books = <<>>
  /\ selected = None
  /\ streak = 0
  /\ resumeSession = None
  /\ mounted = FALSE
  /\ storage \in stores
  /\ now = t0
  /\ nextId = 1
  /\ turns = <<>>
  /\ lastSend = None
  /\ sentDays = {}
  /\ catalog = "idle"
  /\ crashed = FALSE
  /\ uncaught = 0
  /\ dailyPrompts = <<>>

\* ------------------------------------------------------------------------
\* On load
\* ------------------------------------------------------------------------

\* const pool = [...]: the five prompts ('Give me today's 2-minute habit'
\* has U+2019 as its apostrophe)
Pool ==
  <<
     \* Give me today's 2-minute habit
     <<71, 105, 118, 101, 32, 109, 101, 32, 116, 111, 100, 97, 121,
       8217, 115, 32, 50, 45, 109, 105, 110, 117, 116, 101, 32, 104,
       97, 98, 105, 116>>,
     \* Explain this chapter with an example
     <<69, 120, 112, 108, 97, 105, 110, 32, 116, 104, 105, 115, 32, 99,
       104, 97, 112, 116, 101, 114, 32, 119, 105, 116, 104, 32, 97,
       110, 32, 101, 120, 97, 109, 112, 108, 101>>,
     \* Turn this into a daily plan
     <<84, 117, 114, 110, 32, 116, 104, 105, 115, 32, 105, 110, 116,
       111, 32, 97, 32, 100, 97, 105, 108, 121, 32, 112, 108, 97, 110>>,
     \* What mistake do people make with this idea?
     <<87, 104, 97, 116, 32, 109, 105, 115, 116, 97, 107, 101, 32, 100,
       111, 32, 112, 101, 111, 112, 108, 101, 32, 109, 97, 107, 101,
       32, 119, 105, 116, 104, 32, 116, 104, 105, 115, 32, 105, 100,
       101, 97, 63>>,
     \* How do I apply this in 10 minutes?
     <<72, 111, 119, 32, 100, 111, 32, 73, 32, 97, 112, 112, 108, 121,
       32, 116, 104, 105, 115, 32, 105, 110, 32, 49, 48, 32, 109, 105,
       110, 117, 116, 101, 115, 63>> >>

\* Array.from(key).reduce((acc, ch) => acc + ch.charCodeAt(0), 0)
RECURSIVE KeySeed(_)
KeySeed(key) == IF key = <<>> THEN 0 ELSE Head(key) + KeySeed(Tail(key))

\* seed = (seed * 9301 + 49297) % 233280.  The product stays below 2^53,
\* so the program's doubles hold it exactly; here it is taken in two parts,
\* 9301 = 9000 + 301, to keep every intermediate value below 2^31
Lcg(seed) == (((seed * 9000) % 233280) + seed * 301 + 49297) % 233280

\* let j = 0; let pick = idx;
\* while (used.has(pick) && j < pool.length) { pick = (pick + 1) % pool.length; j++; }
RECURSIVE Probe(_, _, _)
Probe(used, pick, j) ==
  IF pick \in used /\ j < Len(Pool) THEN Probe(used, (pick + 1) % Len(Pool), j + 1)
  ELSE pick

\* for (let i = 0; i < 3 && i < pool.length; i++) { ... }: picks holds the
\* prompts pushed, used the indexes (from 0) taken
RECURSIVE PickLoop_SameSeed(_, _, _, _)
PickLoop_SameSeed(seed, picks, used, i) ==
  IF i < 3 /\ i < Len(Pool)
  THEN LET next == Lcg(seed)
           pick == Probe(used, next % Len(Pool), 0)
       IN  PickLoop_SameSeed(seed, Append(picks, Pool[pick + 1]), used \cup {pick}, i + 1)
  ELSE picks

RECURSIVE PickLoop(_, _, _, _)
PickLoop(seed, picks, used, i) ==
  IF i < 3 /\ i < Len(Pool)
  THEN LET next == Lcg(seed)
           pick == Probe(used, next % Len(Pool), 0)
       IN  PickLoop(next, Append(picks, Pool[pick + 1]), used \cup {pick}, i + 1)
  ELSE picks

\* The prompts of the day with the date key "YYYY-MM-DD"
DailyPicks(key) == PickLoop(KeySeed(key), <<>>, {}, 0)

\* useEffect (on load): the prompts of the day, setStreak(ls ? parseInt(ls)
\* || 0 : 0) and the resume banner; storage is read without a failure here.
\* The other on-load effect sends the request for the catalog.
Mount ==
  /\ ~mounted /\ ~crashed
  /\ mounted' = TRUE
  /\ catalog' = "pending"
  /\ dailyPrompts' = DailyPicks(ToISODate(now))
  /\ streak' = IF storage.streakCount = None \/ storage.streakCount = Some(<<>>)
               THEN 0 ELSE OrZero(ParseInt(storage.streakCount[1]))
  /\ resumeSession' = IF storage.lastSession = None THEN resumeSession
                      ELSE storage.lastSession
  /\ UNCHANGED <<messages, query, books, selected, storage, now, nextId, turns,
                 lastSend, sentDays, crashed, uncaught>>

\* useEffect (load books): the catalog fetch resolved with data
LoadBooks(data) ==
  /\ mounted
  /\ catalog = "pending"
  /\ books' = data
  /\ catalog' = "loaded"
  /\ UNCHANGED <<messages, query, selected, streak, resumeSession, mounted,
                 storage, now, nextId, turns, lastSend, sentDays, crashed, uncaught, dailyPrompts>>

\* useEffect (load books): await fetch(...) rejected (no connection); the
\* catch reports the error and the catalog stays as it is
BooksReject ==
  /\ mounted
  /\ catalog = "pending"
  /\ catalog' = "failed"
  /\ UNCHANGED <<messages, query, books, selected, streak, resumeSession, mounted,
                 storage, now, nextId, turns, lastSend, sentDays, crashed, uncaught, dailyPrompts>>

\* useEffect (load books): await res.json() rejected, the body of the
\* response (of whatever status) is not JSON; same catch
BooksNotJson ==
  /\ mounted
  /\ catalog = "pending"
  /\ catalog' = "failed"
  /\ UNCHANGED <<messages, query, books, selected, streak, resumeSession, mounted,
                 storage, now, nextId, turns, lastSend, sentDays, crashed, uncaught, dailyPrompts>>

\* useEffect (load books): the response has a status that is not a success
\* and a body that is a JSON array; res.ok is not looked at, so the array
\* becomes the catalog
BooksHttpError(data) ==
  /\ mounted
  /\ catalog = "pending"
  /\ books' = data
  /\ catalog' = "failed"
  /\ UNCHANGED <<messages, query, selected, streak, resumeSession, mounted,
                 storage, now, nextId, turns, lastSend, sentDays, crashed, uncaught, dailyPrompts>>

\* useEffect (load books): the body is JSON but not an array (an error
\* object such as {"error": "..."}, null, a number, a string), with any
\* status.  setBooks(data) stores it; books is what useMemo returns as
\* filtered while the search box is empty, and the next render calls
\* filtered.map(...) (lines 436, 560), which is not a function: the render
\* throws and, with no error boundary around <App />, React removes the whole
\* tree.  The component's state is gone with it; no handler of the page can
\* be invoked any more.
BooksNotArray ==
  /\ mounted
  /\ catalog = "pending"
  /\ catalog' = "failed"
  /\ crashed' = TRUE
  /\ mounted' = FALSE
  /\ UNCHANGED <<messages, query, books, selected, streak, resumeSession,
                 storage, now, nextId, turns, lastSend, sentDays, uncaught,
                 dailyPrompts>>

\* onChange={(e) => setQuery(e.target.value)}
SetQuery(v) ==
  /\ mounted
  /\ query # v
  /\ query' = v
  /\ UNCHANGED <<messages, books, selected, streak, resumeSession, mounted,
                 storage, now, nextId, turns, lastSend, sentDays,
                 catalog, crashed, uncaught, dailyPrompts>>

\* onClick={() => setSelected(b)} on one of the listed books
Select(k) ==
  /\ mounted
  /\ k \in 1..Len(books)
  /\ selected # Some(books[k])
  /\ selected' = Some(books[k])
  /\ UNCHANGED <<messages, query, books, streak, resumeSession, mounted,
                 storage, now, nextId, turns, lastSend, sentDays,
                 catalog, crashed, uncaught, dailyPrompts>>

\* ------------------------------------------------------------------------
\* handleSend, up to the request
\* ------------------------------------------------------------------------

\* if (!last) ... else if (last === todayStr) ... else if (last ===
\* yesterdayStr) ... else ... : the new count; last is the stored value or None
NextCount_NoIncrement(last, count, todayStr, yesterdayStr) ==
  IF last = None \/ last = Some(<<>>) THEN 1
  ELSE IF last[1] = todayStr THEN count
  ELSE IF last[1] = yesterdayStr THEN count
  ELSE 1

NextCount(last, count, todayStr, yesterdayStr) ==
  IF last = None \/ last = Some(<<>>) THEN 1
  ELSE IF last[1] = todayStr THEN count
  ELSE IF last[1] = yesterdayStr THEN count + 1
  ELSE 1

\* const yesterdayStr = new Date(Date.now() - 86400000).toISOString().slice(0,10)
\* for the reading t of Date.now()
YesterdayStr(t) == ToISODate(t - OneDay)

\* The "Update streak" block.  t1 is the clock read by new Date(), t2 the
\* clock read by Date.now(); fail is the storage call that throws: 0 none,
\* 1 getItem('lastActiveDate'), 2 getItem('streakCount'),
\* 3 setItem('lastActiveDate'), 4 setItem('streakCount').  A call that throws
\* ends the block; the writes made before it stay.
StreakUpdate(store, shown, t1, t2, fail) ==
  LET todayStr     == ToISODate(t1)
      last         == store.lastActiveDate
      count        == OrZero(ParseInt(OrZeroString(store.streakCount)))
      yesterdayStr == YesterdayStr(t2)
      next         == NextCount(last, count, todayStr, yesterdayStr)
  IN  IF fail \in {1, 2, 3} THEN [storage |-> store, streak |-> shown]
      ELSE IF fail = 4
      THEN [storage |-> [store EXCEPT !.lastActiveDate = Some(todayStr)], streak |-> shown]
      ELSE [storage |-> [store EXCEPT !.lastActiveDate = Some(todayStr),
                                      !.streakCount = Some(NumberToString(next))],
            streak  |-> next]

\* const which = selected ?? books[0]
Which_Placeholder(sel, bs) ==
  IF sel # None THEN sel
  ELSE IF bs # <<>> THEN Some(bs[1])
  ELSE Some([id |-> "none", title |-> "Book"])

Which(sel, bs) == IF sel # None THEN sel ELSE IF bs # <<>> THEN Some(bs[1]) ELSE None

\* The "Save resume pointer" block; fail: setItem('lastSession') throws
ResumeUpdate(store, prev, which, q, fail) ==
  IF which = None THEN [storage |-> store, resumeSession |-> prev]
  ELSE IF fail THEN [storage |-> store, resumeSession |-> prev]
  ELSE LET s == Some([bookId |-> which[1].id, question |-> q, bookTitle |-> which[1].title])
       IN  [storage |-> [store EXCEPT !.lastSession = s], resumeSession |-> s]

\* try { ... } catch (e) { console.warn(...) } and try { ... } catch {} around
\* the two storage blocks: whether an exception thrown inside leaves the block
Escapes_Rethrown(threw) == threw

Escapes(threw) == FALSE

\* A turn as handleSend leaves it when it awaits fetch
NewTurn(userMsgId, bookMsgId, which, q) ==
  [pc |-> "fetch", userMsgId |-> userMsgId, bookMsgId |-> bookMsgId,
   which |-> which, q |-> q, body |-> <<>>, pos |-> 0, decoder |-> NewDecoder,
   buffer |-> <<>>, deltas |-> <<>>, errId |-> None]

\* setMessages((m) => [...m, msg])
AppendMsg_Twice(m, msg) == Append(Append(m, msg), msg)

AppendMsg(m, msg) == Append(m, msg)

\* if (!q) return: handleSend(overrideText) with a blank text.  Nothing is
\* read and nothing is written; the history notes the call.
SendBlank ==
  /\ lastSend' = Some([t1 |-> now, t2 |-> now, f1 |-> 0, f2 |-> FALSE, q |-> <<>>,
                       last |-> storage.lastActiveDate,
                       count |-> storage.streakCount])
  /\ UNCHANGED <<messages, query, books, selected, streak, resumeSession, mounted,
                 storage, now, nextId, turns, sentDays, catalog, crashed, uncaught, dailyPrompts>>

\* handleSend(overrideText): overrideText is None or Some(text); t1, t2, f1,
\* f2 as in StreakUpdate and ResumeUpdate
Send(overrideText, t1, t2, f1, f2) ==
  LET q     == Trim(IF overrideText # None THEN overrideText[1] ELSE query)
      su    == StreakUpdate(storage, streak, t1, t2, f1)
      which == Which(selected, books)
      ru    == ResumeUpdate(su.storage, resumeSession, which, q, f2)
      withUser == AppendMsg(messages, ChatMsg(nextId, "user", q))
  IN  IF q = <<>> THEN mounted /\ SendBlank ELSE
      /\ mounted
      /\ now <= t1 /\ t1 <= t2
      /\ query' = <<>>
      /\ storage' = ru.storage
      /\ streak' = su.streak
      /\ resumeSession' = ru.resumeSession
      /\ now' = t2
      /\ lastSend' = Some([t1 |-> t1, t2 |-> t2, f1 |-> f1, f2 |-> f2, q |-> q,
                           last |-> storage.lastActiveDate,
                           count |-> storage.streakCount])
      /\ sentDays' = sentDays \cup {t1 \div OneDay}
      /\ IF Escapes(f1 # 0) \/ Escapes(which # None /\ f2)
         THEN /\ messages' = withUser
              /\ nextId' = nextId + 1
              /\ turns' = turns
              /\ uncaught' = uncaught + 1
         ELSE IF which = None
         THEN /\ messages' = withUser
              /\ nextId' = nextId + 1
              /\ turns' = turns
              /\ uncaught' = uncaught
         ELSE /\ messages' = AppendMsg(withUser, ChatMsg(nextId + 1, "book", <<>>))
              /\ nextId' = nextId + 2
              /\ turns' = Append(turns, NewTurn(nextId, nextId + 1, which[1], q))
              /\ uncaught' = uncaught
      /\ UNCHANGED <<books, selected, mounted, catalog, crashed, dailyPrompts>>

\* <Button onClick={handleSend}> (the two Ask buttons): React calls the
\* handler with the click event, so overrideText is the event object.
\* (overrideText ?? query) is then the event, which has no method trim:
\* line 166 throws a TypeError before anything is appended or sent, and the
\* promise of the async function is rejected with nobody to handle it.
ClickAsk ==
  /\ mounted
  /\ uncaught' = uncaught + 1
  /\ UNCHANGED <<messages, query, books, selected, streak, resumeSession, mounted,
                 storage, now, nextId, turns, lastSend, sentDays, catalog, crashed, dailyPrompts>>

\* onKeyDown: Cmd/Ctrl+Enter in a composer calls handleSend() with no
\* argument, so the draft is sent
KeySend(t1, t2, f1, f2) == Send(None, t1, t2, f1, f2)

\* onClick={() => handleSend(p)} on a chip (a daily prompt or a follow-up)
ChipSend(p, t1, t2, f1, f2) == Send(Some(p), t1, t2, f1, f2)

\* ------------------------------------------------------------------------
\* handleSend, the request and the read loop
\* ------------------------------------------------------------------------

\* setMessages((m) => m.map((msg) => msg.id === bookMsgId
\*   ? { ...msg, content: msg.content + delta } : msg))
ApplyDelta_AllBooks(m, bookMsgId, delta) ==
  [k \in 1..Len(m) |->
     IF m[k].role = "book" THEN [m[k] EXCEPT !.content = @ \o delta] ELSE m[k]]

ApplyDelta_MoveLast(m, bookMsgId, delta) ==
  LET hit  == SelectSeq(m, LAMBDA msg : msg.id = bookMsgId)
      rest == SelectSeq(m, LAMBDA msg : msg.id # bookMsgId)
  IN  rest \o [k \in 1..Len(hit) |-> [hit[k] EXCEPT !.content = @ \o delta]]

ApplyDelta_Replace(m, bookMsgId, delta) ==
  [k \in 1..Len(m) |->
     IF m[k].id = bookMsgId THEN [m[k] EXCEPT !.content = delta] ELSE m[k]]

ApplyDelta_Prepend(m, bookMsgId, delta) ==
  [k \in 1..Len(m) |->
     IF m[k].id = bookMsgId THEN [m[k] EXCEPT !.content = delta \o @] ELSE m[k]]

ApplyDelta(m, bookMsgId, delta) ==
  [k \in 1..Len(m) |->
     IF m[k].id = bookMsgId THEN [m[k] EXCEPT !.content = @ \o delta] ELSE m[k]]

\* The updates of one pass of the inner while loop, in order
RECURSIVE ApplyDeltas(_, _, _)
ApplyDeltas(m, bookMsgId, deltas) ==
  IF deltas = <<>> THEN m
  ELSE ApplyDeltas(ApplyDelta(m, bookMsgId, Head(deltas)), bookMsgId, Tail(deltas))

\* buffer += value ? decoder.decode(value, { stream: !readerDone }) : ''
AddToBuffer_Replace(buffer, text) == text

AddToBuffer(buffer, text) == buffer \o text

\* catch (e) { ... setMessages((m) => [...m, errorMsg]) } for turn i: the
\* handler ends normally with one more message
Catch_Silent(i) ==
  /\ messages' = messages
  /\ nextId' = nextId
  /\ turns' = [turns EXCEPT ![i].pc = "failed"]

Catch(i) ==
  /\ messages' = AppendMsg(messages, ChatMsg(nextId, "book", Fallback))
  /\ nextId' = nextId + 1
  /\ turns' = [turns EXCEPT ![i].pc = "failed", ![i].errId = Some(nextId)]

\* await fetch(...) resolved with a response: ok is res.ok, hasBody is
\* whether res.body is there, body is the bytes the server is going to send
FetchResolve(i, ok, hasBody, body) ==
  /\ i \in 1..Len(turns)
  /\ turns[i].pc = "fetch"
  /\ IF ~ok \/ ~hasBody
     THEN Catch(i)
     ELSE /\ turns' = [turns EXCEPT ![i].pc = "read", ![i].body = body]
          /\ UNCHANGED <<messages, nextId>>
  /\ UNCHANGED <<query, books, selected, streak, resumeSession, mounted,
                 storage, now, lastSend, sentDays,
                 catalog, crashed, uncaught, dailyPrompts>>

\* await fetch(...) rejected
FetchReject(i) ==
  /\ i \in 1..Len(turns)
  /\ turns[i].pc = "fetch"
  /\ Catch(i)
  /\ UNCHANGED <<query, books, selected, streak, resumeSession, mounted,
                 storage, now, lastSend, sentDays,
                 catalog, crashed, uncaught, dailyPrompts>>

\* done = readerDone; while (!done): where handleSend is after a pass
LoopPc_Forever(readerDone) == "read"

LoopPc(readerDone) == IF readerDone THEN "done" ELSE "read"

\* One pass of while (!done) for a read that resolved: value is the next n
\* bytes of the body (None: undefined), readerDone the reader's done
ReadResult(i, value, readerDone) ==
  LET t       == turns[i]
      text    == IF value # None THEN Decode(t.decoder, value[1], ~readerDone)
                 ELSE [dec |-> t.decoder, out |-> <<>>]
      d       == Drain(AddToBuffer(t.buffer, text.out), <<>>)
  IN  /\ messages' = ApplyDeltas(messages, t.bookMsgId, d.deltas)
      /\ turns' = [turns EXCEPT ![i].pc = LoopPc(readerDone),
                                ![i].pos = t.pos + (IF value # None THEN Len(value[1]) ELSE 0),
                                ![i].decoder = text.dec,
                                ![i].buffer = d.buffer,
                                ![i].deltas = t.deltas \o d.deltas]
      /\ UNCHANGED <<query, books, selected, streak, resumeSession, mounted,
                     storage, now, nextId, lastSend, sentDays,
                 catalog, crashed, uncaught, dailyPrompts>>

\* reader.read() resolved with { value: the next n bytes, done: false }
Read(i, n) ==
  /\ i \in 1..Len(turns)
  /\ turns[i].pc = "read"
  /\ n >= 1 /\ turns[i].pos + n <= Len(turns[i].body)
  /\ ReadResult(i, Some(SubSeq(turns[i].body, turns[i].pos + 1, turns[i].pos + n)), FALSE)

\* reader.read() resolved with { value: undefined, done: true }: the body
\* has been delivered
ReadEnd(i) ==
  /\ i \in 1..Len(turns)
  /\ turns[i].pc = "read"
  /\ turns[i].pos = Len(turns[i].body)
  /\ ReadResult(i, None, TRUE)

\* reader.read() resolved with { value: the rest of the body, done: true }
ReadLast(i) ==
  /\ i \in 1..Len(turns)
  /\ turns[i].pc = "read"
  /\ turns[i].pos < Len(turns[i].body)
  /\ ReadResult(i, Some(SliceFrom(turns[i].body, turns[i].pos)), TRUE)

\* reader.read() rejected
ReadFail(i) ==
  /\ i \in 1..Len(turns)
  /\ turns[i].pc = "read"
  /\ Catch(i)
  /\ UNCHANGED <<query, books, selected, streak, resumeSession, mounted,
                 storage, now, lastSend, sentDays,
                 catalog, crashed, uncaught, dailyPrompts>>

\* ------------------------------------------------------------------------
\* The journal
\* ------------------------------------------------------------------------

\* '(previous question)'
PreviousQuestion ==
  <<40, 112, 114, 101, 118, 105, 111, 117, 115, 32, 113, 117, 101, 115, 116,
    105, 111, 110, 41>>

\* messages.slice(0, idx).reverse().find(x => x.role === 'user')?.content
\*   || '(previous question)' for the message at position idx (from 1)
PrevUserContent(m, idx) ==
  LET before == {k \in 1..(idx - 1) : m[k].role = "user"}
      k      == CHOOSE j \in before : \A l \in before : l <= j
  IN  IF before = {} \/ m[k].content = <<>> THEN PreviousQuestion ELSE m[k].content

\* saveToJournal(bookId, q, a): the entry is pushed at the end of the stored
\* list; fail: a storage call throws, the catch leaves the journal as it was
SaveToJournal(store, id, ts, bookId, q, a, fail) ==
  LET entry == [id |-> id, ts |-> ts, bookId |-> bookId, q |-> q, a |-> a]
      list  == IF store.journal = None THEN <<>> ELSE store.journal[1]
  IN  IF fail THEN store
      ELSE [store EXCEPT !.journal = Some(Append(list, entry))]

\* The book of a journal entry: const which = selected ?? books[0], read
\* when Save is clicked
SaveWhich(sel, bs) == IF sel # None THEN sel ELSE IF bs # <<>> THEN Some(bs[1]) ELSE None

\* onClick of the Save button under the book message at position idx; t is
\* the clock read by Date.now()
Save(idx, t, fail) ==
  LET q     == PrevUserContent(messages, idx)
      which == SaveWhich(selected, books)
  IN  /\ mounted
      /\ idx \in 1..Len(messages)
      /\ messages[idx].role = "book"
      /\ now <= t
      /\ IF which = None
         THEN UNCHANGED <<storage, nextId, now>>
         ELSE /\ storage' = SaveToJournal(storage, nextId, t, which[1].id, q,
                                          messages[idx].content, fail)
              /\ nextId' = nextId + 1
              /\ now' = t
      /\ UNCHANGED <<messages, query, books, selected, streak, resumeSession,
                     mounted, turns, lastSend, sentDays, catalog, crashed, uncaught, dailyPrompts>>

\* ------------------------------------------------------------------------
\* Inputs and bounds
\* ------------------------------------------------------------------------

\* GET /books: the catalog the backend serves
Catalog == <<[id |-> "b1", title |-> "Book One"], [id |-> "b2", title |-> "Book Two"]>>

\* A follow-up chip: 'Give me examples'
FollowUp == <<71, 105, 118, 101, 32, 109, 101, 32, 101, 120, 97, 109, 112, 108, 101, 115>>

\* The clock at page load, in days since 1970-01-01 (19781 is 2024-02-28)
StartDay == 19781

\* What the answering service writes, piece by piece
Pieces ==
  { <<10>>,                                                  \* "\n"
    <<100, 97, 116, 97, 58, 120, 10>>,                       \* "data:x\n"
    <<100, 97, 116, 97, 58, 32, 194, 160, 121, 32, 10>>,     \* "data:  y \n"
    <<101, 118, 101, 110, 116, 58, 112, 105, 110, 103, 10,
      100, 97, 116, 97, 58, 120, 10>>,                       \* "event:ping\ndata:x\n"
    <<101, 118, 101, 110, 116, 58, 32, 99, 104, 117, 110, 107, 32, 10>>,
                                                             \* "event: chunk \n"
    <<100, 97, 116, 97, 58, 120, 10, 10>>,                   \* "data:x\n\n"
    <<58, 107, 10>> }                                        \* ":k\n"

\* A body is at most MaxPieces pieces
MaxPieces == 3

\* A read delivers at most MaxChunk bytes, or all the body that is left
MaxChunk == 3

Bodies == {Concat(ps) : ps \in UNION {[1..n -> Pieces] : n \in 0..MaxPieces}}

\* ------------------------------------------------------------------------
\* One turn, any body, any cut into chunks
\* ------------------------------------------------------------------------

InitStream == InitWith({EmptyStorage}, StartDay * OneDay)

NextStream ==
  \/ Mount
  \/ LoadBooks(Catalog)
  \/ turns = <<>> /\ messages = <<>> /\ Send(Some(FollowUp), now, now, 0, FALSE)
  \/ turns # <<>> /\ turns[1].pc = "fetch" /\ \E body \in Bodies : FetchResolve(1, TRUE, TRUE, body)
  \/ \E n \in 1..MaxChunk : Read(1, n)
  \/ turns # <<>> /\ Read(1, Len(turns[1].body) - turns[1].pos)
  \/ ReadLast(1)
  \/ ReadEnd(1)

SpecStream == InitStream /\ [][NextStream]_vars

\* ------------------------------------------------------------------------
\* The stream as a text: what a reader of the whole text sees in it
\* ------------------------------------------------------------------------

\* The text of the first n bytes of turn t's body, decoded in one piece
TextUpTo(t, n) == Decode(NewDecoder, SubSeq(t.body, 1, n), TRUE).out

\* The deltas the read loop forwards when bytes arrive as a single chunk
\* and the stream then ends
SingleChunk(bytes) == Drain(Decode(NewDecoder, bytes, TRUE).out, <<>>).deltas

\* The frames of a text: the pieces between "\n\n" delimiters; the last one
\* is what follows the last delimiter (it has no delimiter after it)
RECURSIVE FramesOf(_)
FramesOf(text) ==
  LET idx == IndexOfBlank(text, 1)
  IN  IF idx = 0 THEN <<text>>
      ELSE <<SubSeq(text, 1, idx - 1)>> \o FramesOf(SliceFrom(text, idx + 1))

\* The frames of a text that are followed by a delimiter
CompleteFramesOf(text) == LET fs == FramesOf(text) IN SubSeq(fs, 1, Len(fs) - 1)

LinesWith(frame, p) == SelectSeq(SplitLines(frame, <<>>), LAMBDA l : StartsWith(l, p))

\* A frame's event type: that of its last event: line, None without one
EventTypeOf(frame) ==
  LET es == LinesWith(frame, EventPrefix)
  IN  IF es = <<>> THEN None ELSE Some(Trim(SliceFrom(es[Len(es)], Len(EventPrefix))))

\* A frame's data: lines, without "data:" and the one white space after it,
\* joined with "\n"
DataOf(frame) ==
  LET ds == LinesWith(frame, DataPrefix)
  IN  JoinLines([k \in 1..Len(ds) |-> StripPrefix(ds[k], DataPrefix)])

IsChunkFrame(frame) == EventTypeOf(frame) \in {None, Some(ChunkEvent)}

\* The data of the chunk frames among fs, concatenated with no separator
RECURSIVE ChunkData(_)
ChunkData(fs) ==
  IF fs = <<>> THEN <<>>
  ELSE (IF IsChunkFrame(Head(fs)) THEN DataOf(Head(fs)) ELSE <<>>) \o ChunkData(Tail(fs))

\* The message of the transcript with the given id
MsgById(id) == LET k == CHOOSE k \in 1..Len(messages) : messages[k].id = id IN messages[k]

Reading(t) == t.pc \in {"read", "done"}

\* ------------------------------------------------------------------------
\* Claims about the frame parser (SpecStream)
\* ------------------------------------------------------------------------

\* C1: however the text of a stream is cut into read chunks, the deltas the
\* read loop has forwarded, concatenated, are those it forwards when the same
\* text arrives as one single chunk; this holds after every read, and so when
\* the stream has ended.
C1_ChunkSplitInvariance ==
  \A i \in 1..Len(turns) :
    Reading(turns[i]) =>
      Concat(turns[i].deltas) = Concat(SingleChunk(SubSeq(turns[i].body, 1, turns[i].pos)))

\* C1 witness: a stream that ended after a read stopped between the two
\* characters of a "\n\n" delimiter is not visible in one state, so the
\* witness is the state in the middle: a frame has been forwarded, the last
\* read ended between the two line feeds of the next delimiter.
C1_Witness ==
  \E i \in 1..Len(turns) :
    LET t == turns[i]
    IN  /\ t.pc = "read" /\ t.deltas # <<>>
        /\ t.pos >= 1 /\ t.pos < Len(t.body)
        /\ t.body[t.pos] = 10 /\ t.body[t.pos + 1] = 10
        /\ Len(t.buffer) > 1

\* C2: once the stream has ended, the forwarded deltas of a stream of chunk
\* frames (no event line, or event: chunk) are the data of ALL frames of the
\* whole text, whether or not the last frame is followed by "\n\n".
C2_NoDataLoss ==
  \A i \in 1..Len(turns) :
    LET t  == turns[i]
        fs == FramesOf(TextUpTo(t, Len(t.body)))
    IN  (t.pc = "done" /\ \A k \in 1..Len(fs) : IsChunkFrame(fs[k]))
          => Concat(t.deltas) = ChunkData(fs)

\* C8: a frame whose event type is not "chunk" changes no message and the
\* loop goes on: after every read the book message holds the data of the
\* frames received so far that have no event type or the type "chunk", and
\* nothing of the others; no other message has changed.
C8_NonChunkDropped ==
  \A i \in 1..Len(turns) :
    LET t == turns[i]
    IN  Reading(t) =>
          /\ MsgById(t.bookMsgId).content = ChunkData(CompleteFramesOf(TextUpTo(t, t.pos)))
          /\ MsgById(t.userMsgId).content = t.q

\* C8 witness: a frame "event: ping" with a data line was received and
\* dropped, and the frame after it was forwarded.
C8_Witness ==
  \E i \in 1..Len(turns) :
    LET t  == turns[i]
        fs == CompleteFramesOf(TextUpTo(t, t.pos))
    IN  /\ Reading(t)
        /\ \E k \in 1..(Len(fs) - 1) :
             /\ ~IsChunkFrame(fs[k]) /\ LinesWith(fs[k], DataPrefix) # <<>>
             /\ IsChunkFrame(fs[k + 1]) /\ DataOf(fs[k + 1]) # <<>>
        /\ MsgById(t.bookMsgId).content = <<120>>

\* The value of a data: line: what follows "data:", trimmed on both sides
\* (trimmed = TRUE), or with one leading white-space character removed and
\* nothing else (trimmed = FALSE)
ValueOf(line, trimmed) ==
  LET rest == SliceFrom(line, Len(DataPrefix))
  IN  IF trimmed THEN Trim(rest)
      ELSE IF rest # <<>> /\ IsSpace(rest[1]) THEN SliceFrom(rest, 1) ELSE rest

\* The deltas of the frames fs: for each frame with a data: line and no
\* event type or the type "chunk", the values of its data: lines in the
\* order of the lines, joined with "\n"
RECURSIVE ExpectedDeltas(_, _)
ExpectedDeltas(fs, trimmed) ==
  IF fs = <<>> THEN <<>>
  ELSE LET ds == LinesWith(Head(fs), DataPrefix)
           d  == JoinLines([j \in 1..Len(ds) |-> ValueOf(ds[j], trimmed)])
       IN  (IF ds # <<>> /\ IsChunkFrame(Head(fs)) THEN <<d>> ELSE <<>>)
             \o ExpectedDeltas(Tail(fs), trimmed)

\* C14 as stated: the value recorded for a data: line is the trimmed
\* remainder of the line; the values keep the order of the lines and a
\* frame's delta is the values joined with "\n".
C14_TrimmedData ==
  \A i \in 1..Len(turns) :
    Reading(turns[i]) =>
      turns[i].deltas
        = ExpectedDeltas(CompleteFramesOf(TextUpTo(turns[i], turns[i].pos)), TRUE)

\* C14 (amended): the value recorded for a data: line is the remainder of the
\* line with at most one leading white-space character removed; any other
\* white space, leading or trailing, is kept.  The values keep the order of
\* the lines and a frame's delta is the values joined with "\n".
C14_DataLines ==
  \A i \in 1..Len(turns) :
    Reading(turns[i]) =>
      turns[i].deltas
        = ExpectedDeltas(CompleteFramesOf(TextUpTo(turns[i], turns[i].pos)), FALSE)

\* C14 witness: the line "data: \u00A0y " was forwarded as "\u00A0y ": the
\* space after the colon is gone, the no-break space and the trailing space
\* are kept.
C14_Witness ==
  \E i \in 1..Len(turns) :
    /\ Reading(turns[i])
    /\ \E k \in 1..Len(turns[i].deltas) : turns[i].deltas[k] = <<160, 121, 32>>
    /\ MsgById(turns[i].bookMsgId).content = <<160, 121, 32>>

\* A frame without the lines that start with neither "event:" nor "data:"
RecognizedLines(frame) ==
  JoinLines(SelectSeq(SplitLines(frame, <<>>),
                      LAMBDA l : StartsWith(l, EventPrefix) \/ StartsWith(l, DataPrefix)))

\* C17: for every frame received, the event type the parser ends with is
\* that of the last event: line; the frame is forwarded exactly when it has
\* a data: line and its event type is absent or "chunk"; the lines with no
\* recognized prefix make no difference to what is parsed; and the number of
\* deltas forwarded is the number of such frames.
C17_EventResolution ==
  \A i \in 1..Len(turns) :
    LET t  == turns[i]
        fs == CompleteFramesOf(TextUpTo(t, t.pos))
        fw == {k \in 1..Len(fs) : LinesWith(fs[k], DataPrefix) # <<>> /\ IsChunkFrame(fs[k])}
    IN  Reading(t) =>
          /\ \A k \in 1..Len(fs) :
               LET f == ParseFrame(fs[k])
               IN  /\ f.eventType = EventTypeOf(fs[k])
                   /\ Forwarded(f) <=> k \in fw
                   /\ ParseFrame(RecognizedLines(fs[k])) = f
          /\ Len(t.deltas) = Cardinality(fw)

\* C17 witness: a frame with the lines "event:ping", "data:x", "event: chunk "
\* was received and its delta "x" forwarded.
C17_Witness ==
  \E i \in 1..Len(turns) :
    LET t  == turns[i]
        fs == CompleteFramesOf(TextUpTo(t, t.pos))
    IN  /\ Reading(t)
        /\ \E k \in 1..Len(fs) :
             LET es == LinesWith(fs[k], EventPrefix)
             IN  /\ Len(es) >= 2
                 /\ Trim(SliceFrom(es[1], Len(EventPrefix))) # ChunkEvent
                 /\ EventTypeOf(fs[k]) = Some(ChunkEvent)
                 /\ LinesWith(fs[k], DataPrefix) # <<>>
        /\ t.deltas = <<<<120>>>>

\* ------------------------------------------------------------------------
\* Several turns, overlapping, with transport failures (SpecChat)
\* ------------------------------------------------------------------------

\* At most MaxTurns questions are sent
MaxTurns == 2

\* A read of the chat delivers ChatChunk bytes (one short frame), or the rest
ChatChunk == 8

\* The answers of the chat: "data:x\n\ndata:y\n\n" and "data: y\n\n"
ChatBodies ==
  { <<100, 97, 116, 97, 58, 120, 10, 10, 100, 97, 116, 97, 58, 121, 10, 10>>,
    <<100, 97, 116, 97, 58, 32, 121, 10, 10>> }

UserCount == Len(SelectSeq(messages, LAMBDA msg : msg.role = "user"))

InitChat == InitWith({EmptyStorage}, StartDay * OneDay)

NextChat ==
  \/ Mount
  \/ LoadBooks(Catalog)
  \/ UserCount < MaxTurns /\ Send(Some(FollowUp), now, now, 0, FALSE)
  \/ \E i \in 1..Len(turns) :
       turns[i].pc = "fetch" /\ \E body \in ChatBodies : FetchResolve(i, TRUE, TRUE, body)
  \/ \E i \in 1..Len(turns) : FetchResolve(i, FALSE, TRUE, <<>>)
  \/ \E i \in 1..Len(turns) : FetchResolve(i, TRUE, FALSE, <<>>)
  \/ \E i \in 1..Len(turns) : FetchReject(i)
  \/ \E i \in 1..Len(turns) : Read(i, ChatChunk)
  \/ \E i \in 1..Len(turns) : ReadLast(i)
  \/ \E i \in 1..Len(turns) : ReadEnd(i)
  \/ \E i \in 1..Len(turns) : ReadFail(i)

SpecChat == InitChat /\ [][NextChat]_vars

\* The message with the given id in the transcript m
MsgIn(m, id) == LET k == CHOOSE k \in 1..Len(m) : m[k].id = id IN m[k]

\* The number of messages of m with the given id
CountId(m, id) == Len(SelectSeq(m, LAMBDA msg : msg.id = id))

\* handleSend is still awaiting the response or a read for turn t
Open(t) == t.pc \in {"fetch", "read"}

\* C3: when a turn has ended through a transport failure, the content of the
\* book message opened for it (bookMsgId) is exactly the fallback text.
C3_FallbackIsFinalContent ==
  \A i \in 1..Len(turns) :
    turns[i].pc = "failed" => MsgById(turns[i].bookMsgId).content = Fallback

\* C4: after a turn has ended through an error, the transcript holds no
\* book message created by that turn whose content is empty.
C4_NoEmptyBubble ==
  \A i \in 1..Len(turns) :
    turns[i].pc = "failed" =>
      \A k \in 1..Len(messages) :
        (messages[k].id \in {turns[i].bookMsgId, turns[i].errId[1]}
           /\ messages[k].role = "book")
          => messages[k].content # <<>>

\* C5: a turn that ends in the catch branch has added exactly one book
\* message with the fallback text (and there is no other message with that
\* text), handleSend has returned normally, and from then on no delta of
\* that turn is applied: the turn and its book message do not change.
C5_EndedByCatch ==
  \A i \in 1..Len(turns) :
    /\ turns[i].pc \in {"fetch", "read", "done", "failed"}
    /\ turns[i].pc = "failed" =>
         /\ turns[i].errId # None
         /\ CountId(messages, turns[i].errId[1]) = 1
         /\ MsgById(turns[i].errId[1]).role = "book"
         /\ MsgById(turns[i].errId[1]).content = Fallback
    /\ turns[i].pc # "failed" => turns[i].errId = None

C5_FallbackCount ==
  Len(SelectSeq(messages, LAMBDA msg : msg.content = Fallback))
    = Cardinality({i \in 1..Len(turns) : turns[i].pc = "failed"})

C5_NoDeltaAfter ==
  \A i \in 1..Len(turns) :
    turns[i].pc = "failed" =>
      /\ turns'[i] = turns[i]
      /\ MsgIn(messages', turns[i].bookMsgId) = MsgIn(messages, turns[i].bookMsgId)
      /\ MsgIn(messages', turns[i].errId[1]) = MsgIn(messages, turns[i].errId[1])

\* C5: every turn ended by the catch branch has exactly one fallback
\* message, handleSend has returned, and nothing of that turn changes later.
C5_SingleFallback ==
  /\ [](C5_EndedByCatch /\ C5_FallbackCount)
  /\ [][C5_NoDeltaAfter]_vars

\* C5 witness: a turn failed after deltas had been applied, while another
\* turn is still being read.
C5_Witness ==
  \E i, j \in 1..Len(turns) :
    /\ turns[i].pc = "failed" /\ turns[i].deltas # <<>>
    /\ turns[j].pc = "read"

\* C6 as stated: at most one book message is open for appending, and it is
\* the one created by the most recent send.
C6_AtMostOneOpen ==
  /\ Cardinality({i \in 1..Len(turns) : Open(turns[i])}) <= 1
  /\ \A i \in 1..Len(turns) : Open(turns[i]) => i = Len(turns)

\* C6 as amended: every send that has not ended owns exactly one book
\* message, its own (sends may overlap, so several messages can be open, one
\* per send in flight), and a message that no send in flight owns is frozen.
C6_OwnMessage ==
  \A i \in 1..Len(turns) :
    /\ CountId(messages, turns[i].bookMsgId) = 1
    /\ MsgById(turns[i].bookMsgId).role = "book"
    /\ \A j \in 1..Len(turns) : turns[i].bookMsgId = turns[j].bookMsgId => i = j

C6_OthersFrozen ==
  \A k \in 1..Len(messages) :
    (k <= Len(messages') /\ messages'[k] # messages[k]) =>
      \E i \in 1..Len(turns) : Open(turns[i]) /\ turns[i].bookMsgId = messages[k].id

\* C6 (amended): one open book message per send in flight, its own; all
\* other messages are frozen and the transcript never shrinks.
C6_OneOpenPerSend ==
  /\ []C6_OwnMessage
  /\ [][C6_OthersFrozen /\ Len(messages') >= Len(messages)]_vars

\* C6 witness: two sends in flight, both with deltas applied.
C6_Witness ==
  /\ Len(turns) >= 2
  /\ turns[1].pc = "read" /\ turns[1].deltas # <<>>
  /\ turns[2].pc = "read" /\ turns[2].deltas # <<>>

\* C7: the transcript keeps the order of the appends (ids are handed out in
\* the order of creation), a turn's user message is immediately before its
\* book message, the list never shrinks, and no step changes the position,
\* the id or the role of a message.
C7_InOrder ==
  /\ \A k \in 1..(Len(messages) - 1) : messages[k].id < messages[k + 1].id
  /\ \A i \in 1..Len(turns) :
       \E k \in 1..(Len(messages) - 1) :
         /\ messages[k].id = turns[i].userMsgId /\ messages[k].role = "user"
         /\ messages[k + 1].id = turns[i].bookMsgId /\ messages[k + 1].role = "book"

C7_Stable ==
  /\ Len(messages') >= Len(messages)
  /\ \A k \in 1..Len(messages) :
       messages'[k].id = messages[k].id /\ messages'[k].role = messages[k].role

\* C7: the transcript is in append order at all times and no step moves,
\* removes or re-labels a message.
C7_TranscriptOrder == []C7_InOrder /\ [][C7_Stable]_vars

\* C7 witness: deltas were applied to the first turn's book message while
\* the messages of a second turn and a fallback message follow it.
C7_Witness ==
  /\ Len(turns) >= 2
  /\ turns[1].pc = "read" /\ Len(turns[1].deltas) >= 2
  /\ turns[2].pc = "failed"

\* s is a prefix of t
IsPrefix(s, t) == Len(s) <= Len(t) /\ SubSeq(t, 1, Len(s)) = s

\* C15: with sends overlapping, under every interleaving of their read
\* loops, the deltas a turn has forwarded are a prefix, in arrival order, of
\* the deltas of its own stream, and the content of its book message is
\* exactly their concatenation: nothing lost, nothing doubled, nothing from
\* another turn; user and fallback messages hold their own text.
C15_Isolation ==
  \A i \in 1..Len(turns) :
    LET t   == turns[i]
        all == SingleChunk(t.body)
    IN  /\ IsPrefix(t.deltas, all)
        /\ MsgById(t.bookMsgId).content = Concat(t.deltas)
        /\ MsgById(t.userMsgId).content = t.q
        /\ t.errId # None => MsgById(t.errId[1]).content = Fallback

\* C15 witness: two turns with different streams, the first still being
\* read with its two deltas applied ("xy"), the second ended with its one
\* ("y").
C15_Witness ==
  /\ Len(turns) >= 2
  /\ turns[1].body # turns[2].body
  /\ turns[1].pc = "read" /\ turns[2].pc = "done"
  /\ MsgById(turns[1].bookMsgId).content = <<120, 121>>
  /\ MsgById(turns[2].bookMsgId).content = <<121>>

\* The turn of the book message with the given id, if a send opened it
OpenedBy(ts, id) == {i \in 1..Len(ts) : ts[i].bookMsgId = id}

C16_Step ==
  /\ \A k \in 1..Len(messages) :
       /\ k <= Len(messages')
       /\ messages[k].role = "user" => messages'[k].content = messages[k].content
       /\ messages[k].role = "book" => IsPrefix(messages[k].content, messages'[k].content)
       /\ (\A i \in OpenedBy(turns, messages[k].id) : turns[i].pc \in {"done", "failed"})
            => messages'[k].content = messages[k].content
  /\ \A k \in (Len(messages) + 1)..Len(messages') :
       OpenedBy(turns', messages'[k].id) # {} => messages'[k].content = <<>>

SpecChatFair == SpecChat /\ \A i \in 1..MaxTurns : WF_vars(ReadEnd(i))

\* The stream of turn t has nothing left but its end-of-data signal
AtEnd(t) == t.pc = "read" /\ t.pos = Len(t.body)

Closed(t) == t.pc \in {"done", "failed"}

C19_NoReadAfterDone ==
  \A i \in 1..Len(turns) : Closed(turns[i]) => turns'[i] = turns[i]

C19_AllProcessed ==
  \A i \in 1..Len(turns) :
    turns[i].pc = "done" =>
      /\ turns[i].pos = Len(turns[i].body)
      /\ turns[i].deltas = SingleChunk(turns[i].body)
      /\ MsgById(turns[i].bookMsgId).content = Concat(SingleChunk(turns[i].body))

\* C19: a turn whose stream signals end-of-data ends up closed (by that
\* signal, or by a failure before it is seen); a closed turn makes no
\* further read and never changes; and when the loop has stopped on done,
\* all the bytes delivered, those that came together with done included,
\* have been parsed and applied.
C19_Termination ==
  /\ \A i \in 1..MaxTurns :
       (i <= Len(turns) /\ AtEnd(turns[i]))
         ~> (i <= Len(turns) /\ Closed(turns[i]))
  /\ [][C19_NoReadAfterDone]_vars
  /\ []C19_AllProcessed

\* C19 witness: the loop stopped on a read that delivered the end of the
\* last frame together with done (the 9 bytes of "data: y\n\n" cannot come
\* in reads of ChatChunk bytes followed by an empty last read), and another
\* turn's loop has stopped at the end of its 16 bytes.
C19_Witness ==
  \E i, j \in 1..Len(turns) :
    /\ turns[i].pc = "done"
    /\ Len(turns[i].body) % ChatChunk # 0
    /\ MsgById(turns[i].bookMsgId).content = <<121>>
    /\ turns[j].pc = "done"
    /\ Len(turns[j].body) % ChatChunk = 0
    /\ MsgById(turns[j].bookMsgId).content = <<120, 121>>

\* ------------------------------------------------------------------------
\* The page: catalog outcomes, the composer and the send triggers (SpecPage)
\* ------------------------------------------------------------------------

\* 'What is chapter 1 about?'
Question ==
  <<87, 104, 97, 116, 32, 105, 115, 32, 99, 104, 97, 112, 116, 101, 114,
    32, 49, 32, 97, 98, 111, 117, 116, 63>>

\* What a user types: the question, with a space before it and a line feed
\* after it
Drafts == {<<32>> \o Question \o <<10>>}

\* One of the daily prompts: 'Turn this into a daily plan'
DailyPrompt ==
  <<84, 117, 114, 110, 32, 116, 104, 105, 115, 32, 105, 110, 116, 111, 32,
    97, 32, 100, 97, 105, 108, 121, 32, 112, 108, 97, 110>>

\* An answer in two frames: "data: Hello\n\ndata: World\n\n"
HelloWorld ==
  <<100, 97, 116, 97, 58, 32, 72, 101, 108, 108, 111, 10, 10, 100, 97,
    116, 97, 58, 32, 87, 111, 114, 108, 100, 10, 10>>

PageBodies == {HelloWorld}

\* At most MaxAsks questions are sent, at most MaxClicks clicks on Ask made
MaxAsks == 2

MaxClicks == 1

\* A read of the page delivers PageChunk bytes (one frame of HelloWorld), or
\* the rest
PageChunk == 13

\* A follow-up chip is on the page: they are drawn under book messages
HasBookMessage == \E k \in 1..Len(messages) : messages[k].role = "book"

InitPage == InitWith({EmptyStorage}, StartDay * OneDay)

NextPage ==
  \/ Mount
  \/ LoadBooks(Catalog)
  \/ LoadBooks(<<>>)
  \/ BooksReject
  \/ BooksNotJson
  \/ BooksNotArray
  \/ BooksHttpError(Catalog)
  \/ \E v \in Drafts : SetQuery(v)
  \/ UserCount < MaxAsks /\ KeySend(now, now, 0, FALSE)
  \/ UserCount < MaxAsks /\ ChipSend(DailyPrompt, now, now, 0, FALSE)
  \/ UserCount < MaxAsks /\ HasBookMessage /\ ChipSend(FollowUp, now, now, 0, FALSE)
  \/ uncaught < MaxClicks /\ ClickAsk
  \/ \E i \in 1..Len(turns) :
       turns[i].pc = "fetch" /\ \E body \in PageBodies : FetchResolve(i, TRUE, TRUE, body)
  \/ \E i \in 1..Len(turns) : Read(i, PageChunk)
  \/ \E i \in 1..Len(turns) : Read(i, Len(turns[i].body) - turns[i].pos)
  \/ \E i \in 1..Len(turns) : ReadEnd(i)

SpecPage == InitPage /\ [][NextPage]_vars

\* The text of a whole body is frames, each ended by its blank line and each
\* with a data: line and no event type other than "chunk"
DataFramesOnly(text) ==
  LET fs == FramesOf(text)
  IN  /\ fs[Len(fs)] = <<>>
      /\ Len(fs) >= 2
      /\ \A k \in 1..(Len(fs) - 1) :
           LinesWith(fs[k], DataPrefix) # <<>> /\ IsChunkFrame(fs[k])

\* C11: when a turn's stream of data frames has ended normally, the turn
\* has put exactly one user message (the question) and exactly one book
\* message into the transcript and no other message, and the content of the
\* book message is the frames' deltas concatenated with no separator.
C11_SuccessfulTurn ==
  /\ \A i \in 1..Len(turns) :
       LET t    == turns[i]
           text == TextUpTo(t, Len(t.body))
       IN  (t.pc = "done" /\ DataFramesOnly(text)) =>
             /\ CountId(messages, t.userMsgId) = 1
             /\ MsgById(t.userMsgId) = ChatMsg(t.userMsgId, "user", t.q)
             /\ CountId(messages, t.bookMsgId) = 1
             /\ MsgById(t.bookMsgId)
                  = ChatMsg(t.bookMsgId, "book",
                            Concat(ExpectedDeltas(CompleteFramesOf(text), FALSE)))
             /\ t.errId = None
  /\ Len(messages) = UserCount + Len(turns)

\* C11 witness: the question 'What is chapter 1 about?', typed with white
\* space around it and sent with Cmd/Ctrl+Enter for the book b1, has been
\* answered by the frames "data: Hello" and "data: World": the transcript
\* is the question and 'HelloWorld'.
C11_Witness ==
  /\ Len(turns) = 1
  /\ turns[1].pc = "done" /\ turns[1].body = HelloWorld
  /\ turns[1].q = Question /\ turns[1].which.id = "b1"
  /\ messages = <<ChatMsg(1, "user", Question),
                  ChatMsg(2, "book", <<72, 101, 108, 108, 111, 87, 111, 114, 108, 100>>)>>

\* A step is a call of handleSend that got past line 167
IsSend == UserCount' # UserCount

C12_Step ==
  (IsSend /\ books = <<>> /\ selected = None) =>
    /\ uncaught' = uncaught
    /\ turns' = turns
    /\ messages' = Append(messages, ChatMsg(nextId, "user", lastSend'[1].q))

\* C12: a send while the catalog is the empty list and no book is selected
\* raises no error, issues no request (no turn reaches fetch), and extends
\* the transcript by the user message and nothing else; at all times no
\* book message and no turn exists unless a catalog with a book was loaded.
C12_EmptyCatalog ==
  /\ [][C12_Step]_vars
  /\ [](books = <<>> => (turns = <<>> /\ ~HasBookMessage))

\* C12 witness: the catalog request returned [], and the draft was sent:
\* the transcript is the one user message.
C12_Witness ==
  /\ catalog = "loaded" /\ books = <<>> /\ selected = None
  /\ messages = <<ChatMsg(1, "user", Question)>>
  /\ turns = <<>> /\ uncaught = 0
  /\ lastSend # None

\* C18: whenever the catalog request has failed, the catalog is the empty
\* list and the page still stands (so that sends and renders go on as with
\* an empty catalog).
C18_CatalogStaysEmpty ==
  catalog = "failed" => (books = <<>> /\ ~crashed /\ mounted)

\* C20: with a non-blank draft in the composer, no call of handleSend made
\* by a trigger of the page ends with an exception, and every one appends
\* the user message with the trimmed text (the draft, or the chip's text)
\* and goes on to the ask flow.
C20_Step ==
  Trim(query) # <<>> =>
    /\ uncaught' = uncaught
    /\ IsSend =>
         \E text \in {query, DailyPrompt, FollowUp} :
           /\ Len(messages') > Len(messages)
           /\ messages'[Len(messages) + 1] = ChatMsg(nextId, "user", Trim(text))
           /\ Which(selected, books) # None =>
                /\ Len(turns') = Len(turns) + 1
                /\ turns'[Len(turns')].pc = "fetch"
                /\ turns'[Len(turns')].q = Trim(text)

C20_EveryTriggerDelivers == [][C20_Step]_vars

\* ------------------------------------------------------------------------
\* Books chosen, questions asked, answers saved (SpecJournal)
\* ------------------------------------------------------------------------

\* At most MaxSaves clicks on Save are made
MaxSaves == 2

\* Calls of crypto.randomUUID() made by saveToJournal: every message took
\* one id
SaveCount == nextId - 1 - Len(messages)

InitJournal == InitWith({EmptyStorage}, StartDay * OneDay)

NextJournal ==
  \/ Mount
  \/ LoadBooks(Catalog)
  \/ \E k \in 1..Len(Catalog) : Select(k)
  \/ UserCount < MaxTurns /\ ~HasBookMessage /\ ChipSend(DailyPrompt, now, now, 0, FALSE)
  \/ UserCount < MaxTurns /\ HasBookMessage /\ ChipSend(FollowUp, now, now, 0, FALSE)
  \/ \E i \in 1..Len(turns) :
       turns[i].pc = "fetch" /\ \E body \in PageBodies : FetchResolve(i, TRUE, TRUE, body)
  \/ \E i \in 1..Len(turns) : FetchReject(i)
  \/ \E i \in 1..Len(turns) : ReadLast(i)
  \/ \E idx \in 1..Len(messages) : SaveCount < MaxSaves /\ Save(idx, now, FALSE)
  \/ \E idx \in 1..Len(messages) : SaveCount < MaxSaves /\ Save(idx, now, TRUE)

SpecJournal == InitJournal /\ [][NextJournal]_vars

\* The turn that put the message with this id into the transcript, as its
\* book message or as its fallback message
TurnOf(id) ==
  CHOOSE i \in 1..Len(turns) : turns[i].bookMsgId = id \/ turns[i].errId = Some(id)

JournalList(store) == IF store.journal = None THEN <<>> ELSE store.journal[1]

C21_Step ==
  \A idx \in 1..Len(messages) :
    (Save(idx, now, FALSE) /\ storage' # storage) =>
      LET list == JournalList(storage')
          e    == list[Len(list)]
          t    == turns[TurnOf(messages[idx].id)]
      IN  /\ list = Append(JournalList(storage), e)
          /\ e.a = messages[idx].content
          /\ e.bookId = t.which.id
          /\ e.q = t.q

\* C21: every click on Save under a book message appends one entry to the
\* journal whose answer is the content of that message, whose bookId is
\* the id of the book the question of the message's turn was sent to, and
\* whose question is the content of the user message of that turn.
C21_JournalAttribution == [][C21_Step]_vars

\* ------------------------------------------------------------------------
\* Sends with a storage that fails (SpecPersist)
\* ------------------------------------------------------------------------

\* Every combination of storage calls that throw during a send: f1 is the
\* call of the streak block that throws (0: none), f2 whether
\* setItem('lastSession') throws
SendFailing ==
  \E f1 \in 0..4, f2 \in BOOLEAN :
    UserCount < MaxTurns /\ Send(Some(FollowUp), now, now, f1, f2)

InitPersist == InitWith({EmptyStorage}, StartDay * OneDay)

NextPersist ==
  \/ Mount
  \/ LoadBooks(Catalog)
  \/ SendFailing
  \/ \E i \in 1..Len(turns) :
       turns[i].pc = "fetch" /\ \E body \in ChatBodies : FetchResolve(i, TRUE, TRUE, body)
  \/ \E i \in 1..Len(turns) : Read(i, ChatChunk)
  \/ \E i \in 1..Len(turns) : ReadLast(i)
  \/ \E i \in 1..Len(turns) : ReadEnd(i)

SpecPersist == InitPersist /\ [][NextPersist]_vars

C13_SendStep ==
  IsSend =>
    LET q == lastSend'[1].q
        w == Which(selected, books)
    IN  /\ uncaught' = uncaught
        /\ w = None =>
             /\ messages' = messages \o <<ChatMsg(nextId, "user", q)>>
             /\ turns' = turns
        /\ w # None =>
             /\ messages' = messages \o <<ChatMsg(nextId, "user", q),
                                          ChatMsg(nextId + 1, "book", <<>>)>>
             /\ turns' = Append(turns, NewTurn(nextId, nextId + 1, w[1], q))

C13_Transcript ==
  /\ Len(messages) = UserCount + Len(turns)
  /\ \A i \in 1..Len(turns) :
       LET t == turns[i]
       IN  /\ MsgById(t.userMsgId) = ChatMsg(t.userMsgId, "user", t.q)
           /\ MsgById(t.bookMsgId)
                = ChatMsg(t.bookMsgId, "book",
                          Concat(SingleChunk(SubSeq(t.body, 1, t.pos))))

\* C13: whichever storage calls throw during a send, the send raises no
\* error and appends the same user message, opens the same book message
\* and issues the same request as with a reliable storage (what it does to
\* the transcript and the turns is fixed by the question and the book
\* alone); and in every state the transcript is the one fixed by the
\* questions and the bytes of the answers delivered so far, whatever the
\* storage did.
C13_PersistenceSwallowed == [][C13_SendStep]_vars /\ []C13_Transcript

\* C13 witness: the latest send had getItem('lastActiveDate') and
\* setItem('lastSession') throw, nothing was stored, and its answer "xy" has
\* been streamed to the end.
C13_Witness ==
  /\ lastSend # None
  /\ lastSend[1].f1 = 1 /\ lastSend[1].f2
  /\ storage = EmptyStorage /\ streak = 0 /\ resumeSession = None
  /\ Len(turns) = 1 /\ turns[1].pc = "done"
  /\ MsgById(turns[1].bookMsgId).content = <<120, 121>>

\* The stored count is the decimal text of an integer >= 1
IsCountFrom1(v) ==
  /\ v # None
  /\ ParseInt(v[1]) # None
  /\ ParseInt(v[1])[1] >= 1
  /\ v[1] = NumberToString(ParseInt(v[1])[1])

\* The streak block of the latest send ran to its end: no storage call threw
C22_ShownAfterWrites == (lastSend # None /\ lastSend[1].f1 = 0) => streak >= 1

\* C22: starting from empty storage, whichever storage calls throw during
\* the sends, whenever lastActiveDate is stored the stored streakCount is
\* the text of an integer >= 1, and after a send whose storage calls all
\* succeeded the streak shown is >= 1.
C22_StreakLowerBound ==
  /\ storage.lastActiveDate # None => IsCountFrom1(storage.streakCount)
  /\ C22_ShownAfterWrites

\* ------------------------------------------------------------------------
\* The streak over days (SpecStreak, SpecTable)
\* ------------------------------------------------------------------------

\* At most MaxSends questions are sent
MaxSends == 4

\* A question is sent at most MaxGap ticks after the clock was last read
MaxGap == 5

\* handleSend reads the clock twice, new Date() at line 175 and Date.now()
\* at line 178; between the two readings the clock advances by at most
\* MaxDrift ticks
MaxDrift == 1

SendAnyTime ==
  \E t1 \in now..(now + MaxGap) :
    \E t2 \in t1..(t1 + MaxDrift) :
      UserCount < MaxSends /\ Send(Some(FollowUp), t1, t2, 0, FALSE)

InitStreak == InitWith({EmptyStorage}, StartDay * OneDay)

NextStreak ==
  \/ Mount
  \/ LoadBooks(Catalog)
  \/ SendAnyTime

SpecStreak == InitStreak /\ [][NextStreak]_vars

\* What earlier sessions, other pages and the user may have left in storage
StoredDates ==
  {None, Some(<<>>), Some(<<110, 111>>)}
    \cup {Some(ToISODate(d * OneDay)) : d \in (StartDay - 2)..(StartDay + 2)}

StoredCounts ==
  {None, Some(<<>>), Some(<<97>>), Some(<<48, 48, 55>>), Some(<<45, 51>>)}
    \cup {Some(NumberToString(n)) : n \in 0..2}

AnyStorage ==
  {[lastActiveDate |-> d, streakCount |-> c, lastSession |-> None,
    journal |-> None] :
     d \in StoredDates, c \in StoredCounts}

InitTable == InitWith(AnyStorage, StartDay * OneDay)

NextTable ==
  \/ Mount
  \/ SendAnyTime

SpecTable == InitTable /\ [][NextTable]_vars

\* The streak count the program reads from a stored value
CountOf(v) == OrZero(ParseInt(OrZeroString(v)))

RECURSIVE RunLength(_, _)
RunLength(days, d) == IF d \in days THEN 1 + RunLength(days, d - 1) ELSE 0

LatestDay(days) == CHOOSE d \in days : \A e \in days : e <= d

\* C10: starting from empty storage, after any sequence of sends the stored
\* and the shown streak are the number of consecutive days, ending with the
\* day of the latest send, on each of which a question was sent.
C10_StreakIsRunLength ==
  sentDays # {} =>
    /\ storage.streakCount = Some(NumberToString(RunLength(sentDays, LatestDay(sentDays))))
    /\ streak = RunLength(sentDays, LatestDay(sentDays))

\* ------------------------------------------------------------------------
\* The composer: blank and non-blank sends (SpecCompose)
\* ------------------------------------------------------------------------

\* A draft of white space only: " \n"
BlankDraft == <<32, 10>>

\* What the composer holds after the user typed or deleted
ComposeDrafts == {<<>>, BlankDraft} \cup Drafts

\* A question is sent at once or a day later
ComposeTimes == {now, now + OneDay}

InitCompose == InitWith({EmptyStorage}, StartDay * OneDay)

NextCompose ==
  \/ Mount
  \/ LoadBooks(Catalog)
  \/ \E v \in ComposeDrafts : SetQuery(v)
  \/ \E t \in ComposeTimes :
       (UserCount < MaxTurns \/ Trim(query) = <<>>) /\ KeySend(t, t, 0, FALSE)
  \/ \E t \in ComposeTimes : UserCount < MaxTurns /\ ChipSend(DailyPrompt, t, t, 0, FALSE)
  \/ \E i \in 1..Len(turns) :
       turns[i].pc = "fetch" /\ \E body \in PageBodies : FetchResolve(i, TRUE, TRUE, body)
  \/ \E i \in 1..Len(turns) : FetchReject(i)
  \/ \E i \in 1..Len(turns) : ReadLast(i)
  \/ \E i \in 1..Len(turns) : ReadFail(i)

SpecCompose == InitCompose /\ [][NextCompose]_vars

\* The text is empty or white space only
AllSpace(s) == \A k \in 1..Len(s) : IsSpace(s[k])

C23_SendStep ==
  \A o \in {None, Some(DailyPrompt)} :
    \A t \in ComposeTimes :
      Send(o, t, t, 0, FALSE) =>
        LET text      == IF o = None THEN query ELSE o[1]
            today     == ToISODate(t)
            dayBefore == ToISODate(t - OneDay)
            old       == CountOf(storage.streakCount)
            expected  == IF storage.lastActiveDate = Some(today) THEN old
                         ELSE IF storage.lastActiveDate = Some(dayBefore) THEN old + 1
                         ELSE 1
        IN  IF AllSpace(text)
            THEN UNCHANGED <<messages, query, storage, streak, resumeSession,
                             turns, nextId, now, uncaught>>
            ELSE /\ query' = <<>>
                 /\ UserCount' = UserCount + 1
                 /\ storage'.lastActiveDate = Some(today)
                 /\ storage'.streakCount = Some(NumberToString(expected))
                 /\ streak' = expected

C23_OtherStep ==
  /\ (UserCount' = UserCount /\ mounted) => (storage' = storage /\ streak' = streak)
  /\ (UserCount' = UserCount /\ turns' # turns) => query' = query

\* C23: a call of handleSend whose text (the override text, else the
\* draft) is empty or white space only changes nothing: transcript, draft,
\* storage, streak shown, resume session and turns (no request) stay as they
\* are.  A call with any other text empties the draft, adds one user
\* message and sets lastActiveDate, streakCount and the streak shown as the
\* streak table says, with or without a book to send to; and no later step
\* of the turn (its stream delivered or failed) touches the streak, the
\* storage or the draft.
C23_BlankSendNoOp == [][C23_SendStep /\ C23_OtherStep]_vars

\* C23 witness: a prompt was sent before the catalog arrived (no book), the
\* typed question was sent a day later and its request failed; then the
\* user typed white space and pressed Cmd/Ctrl+Enter: the draft is still
\* there, the transcript and the streak of 2 are as they were.
C23_Witness ==
  /\ lastSend # None /\ lastSend[1].q = <<>>
  /\ query = BlankDraft
  /\ UserCount = 2 /\ Len(messages) = 4
  /\ Len(turns) = 1 /\ turns[1].pc = "failed" /\ turns[1].q = Question
  /\ streak = 2 /\ storage.streakCount = Some(<<50>>)

\* ------------------------------------------------------------------------
\* The prompts of the day (SpecPrompts)
\* ------------------------------------------------------------------------

\* The page is loaded on StartDay or on one of the PromptDays days after it
PromptDays == 120

InitPrompts ==
  \E d \in StartDay..(StartDay + PromptDays) : InitWith({EmptyStorage}, d * OneDay)

NextPrompts ==
  \/ Mount
  \/ LoadBooks(Catalog)
  \/ \E k \in 1..Len(dailyPrompts) :
       UserCount < MaxTurns /\ ChipSend(dailyPrompts[k], now, now, 0, FALSE)

SpecPrompts == InitPrompts /\ [][NextPrompts]_vars

\* The sums of the character codes of "0000-00-00" and of "9999-99-99": the
\* sum of every text of four digits, '-', two digits, '-', two digits lies
\* between them, and every number between them is such a sum
LowestSeed == KeySeed(<<48, 48, 48, 48, 45, 48, 48, 45, 48, 48>>)

HighestSeed == KeySeed(<<57, 57, 57, 57, 45, 57, 57, 45, 57, 57>>)

\* Linear probing, said directly: the first index at or after idx, going
\* round the pool, that is not in used
FirstFree(used, idx) ==
  LET n == Len(Pool)
      k == CHOOSE j \in 0..(n - 1) :
             /\ ((idx + j) % n) \notin used
             /\ \A l \in 0..(j - 1) : ((idx + l) % n) \in used
  IN  (idx + k) % n

\* The three prompts for a seed: three draws of the generator, each moved
\* on to the first index still free
PromptsOfSeed(seed) ==
  LET s1 == Lcg(seed)
      s2 == Lcg(s1)
      s3 == Lcg(s2)
      p1 == s1 % Len(Pool)
      p2 == FirstFree({p1}, s2 % Len(Pool))
      p3 == FirstFree({p1, p2}, s3 % Len(Pool))
  IN  <<Pool[p1 + 1], Pool[p2 + 1], Pool[p3 + 1]>>

\* Exactly 3 prompts, each from the pool, no two the same
ThreeDistinct(ps) ==
  /\ Len(ps) = 3
  /\ \A a \in 1..Len(ps) : \E k \in 1..Len(Pool) : ps[a] = Pool[k]
  /\ \A a, b \in 1..Len(ps) : a # b => ps[a] # ps[b]

C24_OnLoad ==
  mounted =>
    /\ ThreeDistinct(dailyPrompts)
    /\ dailyPrompts = PromptsOfSeed(KeySeed(ToISODate(now)))

C24_EverySeed ==
  \A seed \in LowestSeed..HighestSeed :
    /\ ThreeDistinct(PickLoop(seed, <<>>, {}, 0))
    /\ PickLoop(seed, <<>>, {}, 0) = PromptsOfSeed(seed)

\* C24: the prompts computed on load are exactly 3 entries of the pool, no
\* two the same, and they are the ones fixed by the date key alone (three
\* draws of seed = (seed * 9301 + 49297) % 233280 from the sum of the key's
\* character codes, each moved on by linear probing); the same holds of the
\* computation for every sum a date key can have; and once computed the
\* prompts of a page never change.
C24_DailyPrompts ==
  /\ [](C24_OnLoad /\ C24_EverySeed)
  /\ [][mounted => dailyPrompts' = dailyPrompts]_vars

\* C24 witness: the page was loaded on the last day, 2024-06-27 (the
\* character codes of the key add up to 497): it shows 'How do I apply this
\* in 10 minutes?', 'Explain this chapter with an example' and 'What mistake
\* do people make with this idea?', and the third has been sent.
C24_Witness ==
  /\ mounted
  /\ now = (StartDay + PromptDays) * OneDay
  /\ dailyPrompts = <<Pool[5], Pool[2], Pool[4]>>
  /\ messages = <<ChatMsg(1, "user", Pool[4])>>


=============================================================================
